---- MODULE Spec2Model ----
(***************************************************************************)
(* Model of omnom's BufReadExt (src/src/buf_read_ext.rs): the operations   *)
(* read_while, fill_while, fill_until, fill_exact, skip, skip_while and    *)
(* skip_until running against a std::io::BufRead source, and of the        *)
(* integer codec (src/src/read_bytes.rs, src/src/write_bytes.rs): write_,  *)
(* read_ and fill_ in big-endian, little-endian and native byte order.     *)
(*                                                                         *)
(* The source is a byte sequence `input`, a logical position `pos` (the    *)
(* number of bytes consumed) and the end `filled` of its internal buffer:  *)
(* the bytes input[pos+1 .. filled] are the window fill_buf() returns.     *)
(* The window is refilled only when it is empty, with any non-zero number  *)
(* of bytes up to MaxWindow (a short read), so it can be shorter than the  *)
(* remaining input.  An io::Cursor is the case where the window is all of  *)
(* the remaining input.                                                    *)
(*                                                                         *)
(* Every loop of the library is modelled one iteration per step, since an  *)
(* iteration starts with a call to the source, which can answer with a     *)
(* window, with ErrorKind::Interrupted or with another error.              *)
(***************************************************************************)
EXTENDS Integers, Sequences, FiniteSets, TLC

\* ---------------------------------------------------------------- bounds
MaxLen == 3        \* longest input
MaxWindow == 2     \* most bytes one refill of the source's buffer brings in
MaxIntr == 1       \* ErrorKind::Interrupted answers the source may give
MaxFail == 1       \* other errors the source may give
MaxRead == 3       \* read_while's loop is followed only while read <= MaxRead
MaxKeep == 1       \* a caller keeps (does not clear) buf only up to this length
MaxWidth == 2      \* widest integer type of the codec, in bytes
Edge == 0          \* how far from its minimum, 0 and its maximum a type's values go

Byte == {0, 1}
Predicates == SUBSET Byte    \* a predicate is the set of bytes it accepts

Min(a, b) == IF a < b THEN a ELSE b

Inputs == UNION {[1..n -> Byte] : n \in 0..MaxLen}

VARIABLES
    input,      \* the whole byte stream behind the source
    pos,        \* bytes consumed so far (the source's logical position)
    filled,     \* end of the source's internal buffer: window = input[pos+1..filled]
    intr,       \* Interrupted answers the source has left
    fail,       \* other errors the source has left
    overrun,    \* a consume(n) since the last call began had n greater than the window
    op,         \* the operation running or last run
    pc,         \* "idle", "loop" (inside the operation's loop) or "done"
    pred,       \* predicate argument
    delim,      \* delimiter argument
    read,       \* the operation's local `read`
    buf,        \* the caller's output Vec<u8>
    ret,        \* the operation's result
    pos0,       \* position when the operation was called
    buf0,       \* buf when the operation was called
    prev,       \* summary of the fill_ call right before this call, if there was one
    sum,        \* sum of the counts of the fill_until calls the caller consumed
                \* and of the counts skip_until returned
    num,        \* numeric argument: n of skip(n), buf.len() of fill_exact(buf)
    spin,       \* parity of the iterations of fill_exact that found too few bytes
    ty,         \* the integer type $SelfT the caller uses the codec with
    target,     \* byte order of the target the crate was built for
    enc,        \* the last write_be/le/ne that returned Ok: byte order and value
    outer       \* the fill_be/le/ne call that fill_exact is running for, if any

vars == <<input, pos, filled, intr, fail, overrun, op, pc, pred, delim, read,
          buf, ret, pos0, buf0, prev, sum, num, spin, ty, target, enc, outer>>

\* the state of the integer codec, which the operations of BufReadExt other
\* than fill_be/le/ne never touch
codec == <<ty, target, enc, outer>>

src == <<input, pos, filled, intr, fail>>

\* ---------------------------------------------------------------- results
NoRet == [kind |-> "none", val |-> 0]
Ok(n) == [kind |-> "ok", val |-> n]
Err == [kind |-> "err", val |-> 0]
Eof == [kind |-> "eof", val |-> 0]      \* Err(ErrorKind::UnexpectedEof)
Panic == [kind |-> "panic", val |-> 0]

NoPrev == [op |-> "none", pred |-> {}, delim |-> 0, kind |-> "none", val |-> 0,
           app |-> <<>>]

\* an integer type: its size in bytes (mem::size_of::<$SelfT>()) and whether
\* it is signed; u8 is [w |-> 1, signed |-> FALSE]
Types == {[w |-> n, signed |-> s] : n \in 1..MaxWidth, s \in BOOLEAN}
U8 == [w |-> 1, signed |-> FALSE]

\* the byte orders of the codec, and those a target can have
Orders == {"be", "le", "ne"}
Targets == {"be", "le"}

NoEnc == [order |-> "none", value |-> 0]

\* ---------------------------------------------------------------- source
\* the unread bytes of the stream
Unread == SubSeq(input, pos + 1, Len(input))

\* BufRead::fill_buf: the values `filled` can have after the call.  A
\* non-empty buffer is returned as it is; an empty one is refilled by one
\* read of the underlying stream, which brings in at least one byte unless
\* the stream is at end-of-input.
fill_buf ==
    IF pos < filled THEN {filled}
    ELSE IF pos = Len(input) THEN {pos}
    ELSE (pos + 1) .. Min(pos + MaxWindow, Len(input))

\* the window fill_buf returns when the buffer then ends at f
available(f) == SubSeq(input, pos + 1, f)

\* BufRead::consume(n) on a buffer input[p+1..f]: the new position
consume(p, f, n) == Min(p + n, f)

\* consume(n) asked for more than the window holds
Overrun(p, f, n) == n > f - p

\* what an operation can come to when it calls consume(n) and then returns r:
\* with n beyond the window the source may cap n (BufReader does) or panic
\* (the slice index of <&[u8] as BufRead>::consume does)
after_consume(p, f, n, r) == IF Overrun(p, f, n) THEN {r, Panic} ELSE {r}

\* ---------------------------------------------------------------- helpers
\* the `for byte in available.bytes()` loop of read_while: the number of bytes
\* it appends (and adds to `read`) before it runs off s or the predicate fails
RECURSIVE for_bytes(_, _)
for_bytes(s, P) ==
    IF s = <<>> THEN 0
    ELSE IF Head(s) \in P THEN 1 + for_bytes(Tail(s), P)
    ELSE 0

\* memchr::memchr(b, s): 0-based index of the first b in s, -1 for None
RECURSIVE memchr(_, _)
memchr(b, s) ==
    IF s = <<>> THEN -1
    ELSE IF Head(s) = b THEN 0
    ELSE LET r == memchr(b, Tail(s)) IN IF r = -1 THEN -1 ELSE r + 1

\* the bytes the running (or last) operation appended to buf
Appended == SubSeq(buf, Len(buf0) + 1, Len(buf))

\* operation o has returned; has returned Ok
Returned(o) == op = o /\ pc = "done"
ReturnedOk(o) == Returned(o) /\ ret.kind = "ok"

\* summary of the fill_ call that just finished with Ok, kept for the next
\* call o(P, d) when that call is one it is compared with: the same fill_
\* call again, or skip_until for the delimiter of fill_until. For fill_exact,
\* val is buf.len() and app the bytes copied; after fill_exact and consume(k)
\* the summary made by caller_consume_exact is carried on
Summary(o, P, d) ==
    IF /\ pc = "done" /\ op \in {"fill_while", "fill_until"} /\ ret.kind = "ok"
       /\ P = pred /\ d = delim
       /\ (o = op \/ (op = "fill_until" /\ o = "skip_until"))
    THEN [op |-> op, pred |-> pred, delim |-> delim, kind |-> ret.kind,
          val |-> ret.val, app |-> Appended]
    ELSE IF pc = "done" /\ op = "fill_exact" /\ ret.kind = "ok" /\ o = op
    THEN [op |-> op, pred |-> {}, delim |-> 0, kind |-> ret.kind,
          val |-> num, app |-> buf]
    ELSE IF pc = "done" /\ op = "fill_exact+consume" /\ o = "fill_exact"
    THEN prev
    ELSE NoPrev

\* ---------------------------------------------------------------- Init
Init ==
    /\ input \in Inputs
    /\ pos = 0
    /\ filled = 0
    /\ intr = MaxIntr
    /\ fail = MaxFail
    /\ overrun = FALSE
    /\ op = "none"
    /\ pc = "idle"
    /\ pred = {}
    /\ delim = 0
    /\ read = 0
    /\ buf = <<>>
    /\ ret = NoRet
    /\ pos0 = 0
    /\ buf0 = <<>>
    /\ prev = NoPrev
    /\ sum = 0
    /\ num = 0
    /\ spin = 0
    /\ ty = U8
    /\ target = "le"
    /\ enc = NoEnc
    /\ outer = "none"

\* the caller starts operation o; it passes a fresh (or cleared) Vec, or the
\* Vec of the last call as it is
Call(o, P, d, keep) ==
    /\ pc \in {"idle", "done"}
    /\ keep => Len(buf) <= MaxKeep
    /\ op' = o
    /\ pc' = "loop"
    /\ pred' = P
    /\ delim' = d
    /\ read' = 0
    /\ buf' = IF keep THEN buf ELSE <<>>
    /\ buf0' = IF keep THEN buf ELSE <<>>
    /\ ret' = NoRet
    /\ pos0' = pos
    /\ prev' = Summary(o, P, d)
    /\ num' = 0
    /\ spin' = 0
    /\ overrun' = FALSE
    /\ UNCHANGED <<codec, src, sum>>

\* the caller starts operation o, which takes the number n and the slice b
\* (empty if it takes none)
CallNum(o, n, b) ==
    /\ pc \in {"idle", "done"}
    /\ op' = o
    /\ pc' = "loop"
    /\ pred' = {}
    /\ delim' = 0
    /\ read' = 0
    /\ buf' = b
    /\ buf0' = b
    /\ ret' = NoRet
    /\ pos0' = pos
    /\ prev' = Summary(o, {}, 0)
    /\ num' = n
    /\ spin' = 0
    /\ overrun' = FALSE
    /\ UNCHANGED <<codec, src, sum>>

\* the operations whose loop retries the same call of the source when it
\* answers ErrorKind::Interrupted
Looping == {"read_while", "fill_while", "fill_until", "skip_while", "skip_until",
            "fill_exact"}

\* the source answers ErrorKind::Interrupted: every loop just `continue`s
Interrupted(o) ==
    /\ op = o
    /\ pc = "loop"
    /\ intr > 0
    /\ intr' = intr - 1
    /\ UNCHANGED <<codec, input, pos, filled, fail, overrun, op, pc, pred, delim, read,
                   buf, ret, pos0, buf0, prev, sum, num, spin>>

\* ---------------------------------------------------------------- read_while
call_read_while ==
    \E P \in Predicates, keep \in BOOLEAN : Call("read_while", P, 0, keep)

\* read_while returning without its `self.consume(read)`
read_while_consume_none(p, f, r) == p

\* `self.consume(read)` before read_while returns: the position it leaves,
\* the buffer being input[p+1..f]
read_while_consume(p, f, r) == consume(p, f, r)

\* one iteration of 'outer, fill_buf() answering Ok with the buffer ending at f
read_while_ok(f) ==
    LET av == available(f)
        k == for_bytes(av, pred)
    IN  /\ filled' = f
        /\ IF Len(av) = 0
           THEN \* break; consume(read); Ok(read)
                /\ pos' = read_while_consume(pos, f, read)
                /\ overrun' = (overrun \/ Overrun(pos, f, read))
                /\ ret' \in after_consume(pos, f, read, Ok(read))
                /\ pc' = "done"
                /\ UNCHANGED <<buf, read>>
           ELSE /\ read <= MaxRead
                /\ buf' = buf \o SubSeq(av, 1, k)
                /\ read' = read + k
                /\ IF k < Len(av)
                   THEN \* break 'outer; consume(read); Ok(read)
                        /\ pos' = read_while_consume(pos, f, read + k)
                        /\ overrun' = (overrun \/ Overrun(pos, f, read + k))
                        /\ ret' \in after_consume(pos, f, read + k, Ok(read + k))
                        /\ pc' = "done"
                   ELSE \* the for loop ran off the window: next iteration
                        /\ UNCHANGED <<pos, overrun, ret, pc>>
        /\ UNCHANGED <<codec, input, intr, fail, op, pred, delim, pos0, buf0, prev, sum, num, spin>>

\* fill_buf() answers an error other than Interrupted: consume(read); Err(e)
read_while_err ==
    /\ fail > 0
    /\ fail' = fail - 1
    /\ pos' = read_while_consume(pos, filled, read)
    /\ overrun' = (overrun \/ Overrun(pos, filled, read))
    /\ ret' \in after_consume(pos, filled, read, Err)
    /\ pc' = "done"
    /\ UNCHANGED <<codec, input, filled, intr, op, pred, delim, read, buf, pos0, buf0, prev, sum, num, spin>>

read_while ==
    /\ op = "read_while"
    /\ pc = "loop"
    /\ \/ \E f \in fill_buf : read_while_ok(f)
       \/ read_while_err

\* ---------------------------------------------------------------- fill_while
call_fill_while ==
    \E P \in Predicates, keep \in BOOLEAN : Call("fill_while", P, 0, keep)

\* fill_while appending the byte it read whether it matches or not
fill_while_ok_appending(f) ==
    LET av == available(f)
    IN  /\ filled' = f
        /\ IF Len(av) = 0
           THEN /\ ret' = Ok(read)
                /\ pc' = "done"
                /\ UNCHANGED <<pos, buf, read>>
           ELSE /\ pos' = consume(pos, f, 1)
                /\ read' = read + 1
                /\ buf' = Append(buf, av[1])
                /\ IF av[1] \in pred
                   THEN UNCHANGED <<ret, pc>>
                   ELSE /\ ret' = Ok(read + 1)
                        /\ pc' = "done"
        /\ UNCHANGED <<codec, input, intr, fail, overrun, op, pred, delim, pos0, buf0, prev, sum, num, spin>>


\* one iteration of the loop, self.read(slice::from_mut(&mut byte)) answering
\* Ok.  Read::read of a buffered source copies from the window fill_buf()
\* gives (ending at f) and consumes what it copied: Ok(0) at end-of-input,
\* else one byte, which is thereby consumed.
fill_while_ok(f) ==
    LET av == available(f)
    IN  /\ filled' = f
        /\ IF Len(av) = 0
           THEN \* Ok(0) => break
                /\ ret' = Ok(read)
                /\ pc' = "done"
                /\ UNCHANGED <<pos, buf, read>>
           ELSE /\ pos' = consume(pos, f, 1)
                /\ read' = read + 1
                /\ IF av[1] \in pred
                   THEN /\ buf' = Append(buf, av[1])
                        /\ UNCHANGED <<ret, pc>>
                   ELSE \* read += 1; break
                        /\ ret' = Ok(read + 1)
                        /\ pc' = "done"
                        /\ UNCHANGED buf
        /\ UNCHANGED <<codec, input, intr, fail, overrun, op, pred, delim, pos0, buf0, prev, sum, num, spin>>

\* self.read() answers an error other than Interrupted: return Err(e)
fill_while_err ==
    /\ fail > 0
    /\ fail' = fail - 1
    /\ ret' = Err
    /\ pc' = "done"
    /\ UNCHANGED <<codec, input, pos, filled, intr, overrun, op, pred, delim, read, buf,
                   pos0, buf0, prev, sum, num, spin>>

fill_while ==
    /\ op = "fill_while"
    /\ pc = "loop"
    /\ \/ \E f \in fill_buf : fill_while_ok(f)
       \/ fill_while_err

\* ---------------------------------------------------------------- fill_until
call_fill_until ==
    \E d \in Byte, keep \in BOOLEAN : Call("fill_until", {}, d, keep)

\* fill_until_scan reporting a match as (true, i): the delimiter not counted
fill_until_scan_short(av, r, d) ==
    LET rest == SubSeq(av, r + 1, Len(av))
        i == memchr(d, rest)
        used == IF i >= 0 THEN i ELSE Len(rest)
    IN  [app |-> SubSeq(rest, 1, used), used |-> used, done |-> i >= 0]

\* fill_until scanning every window from its first byte again
fill_until_scan_restart(av, r, d) ==
    LET i == memchr(d, av)
        used == IF i >= 0 THEN i + 1 ELSE Len(av)
    IN  [app |-> SubSeq(av, 1, used), used |-> used, done |-> i >= 0]


\* the body of the loop after fill_buf() gave the window av, with r bytes
\* already scanned: `available[read..]`, the memchr match, what is appended,
\* `used` and `done`
fill_until_scan(av, r, d) ==
    LET rest == SubSeq(av, r + 1, Len(av))
        i == memchr(d, rest)
        used == IF i >= 0 THEN i + 1 ELSE Len(rest)
    IN  [app |-> SubSeq(rest, 1, used), used |-> used, done |-> i >= 0]

\* fill_until consuming what it scanned, as BufRead::read_until does
fill_until_pos_consuming(p, f, used) == consume(p, f, used)

\* the position fill_until leaves after an iteration that scanned `used`
\* bytes of the window input[p+1..f]: it makes no call to consume
fill_until_pos(p, f, used) == p

\* fill_until returning the length of buf b instead of `read`
fill_until_count_len(r, used, b) == Len(b)

\* `read += used; ... return Ok(read)`: the count fill_until returns, b being
\* buf after the iteration's append
fill_until_count(r, used, b) == r + used

\* fill_until writing what it scanned over buf instead of appending it
fill_until_ok_overwriting(f) ==
    LET av == available(f)
        sc == fill_until_scan(av, read, delim)
    IN  /\ filled' = f
        /\ IF read > Len(av)
           THEN /\ ret' = Panic
                /\ pc' = "done"
                /\ UNCHANGED <<pos, buf, read>>
           ELSE /\ buf' = sc.app
                /\ read' = read + sc.used
                /\ pos' = fill_until_pos(pos, f, sc.used)
                /\ IF sc.done \/ sc.used = 0
                   THEN /\ ret' = Ok(fill_until_count(read, sc.used, sc.app))
                        /\ pc' = "done"
                   ELSE UNCHANGED <<ret, pc>>
        /\ UNCHANGED <<codec, input, intr, fail, overrun, op, pred, delim, pos0, buf0, prev, sum, num, spin>>


\* one iteration of the loop, fill_buf() answering Ok with the buffer ending at f
fill_until_ok(f) ==
    LET av == available(f)
        sc == fill_until_scan(av, read, delim)
    IN  /\ filled' = f
        /\ IF read > Len(av)
           THEN \* &available[read..] is out of range
                /\ ret' = Panic
                /\ pc' = "done"
                /\ UNCHANGED <<pos, buf, read>>
           ELSE /\ buf' = buf \o sc.app
                /\ read' = read + sc.used
                /\ pos' = fill_until_pos(pos, f, sc.used)
                /\ IF sc.done \/ sc.used = 0
                   THEN /\ ret' = Ok(fill_until_count(read, sc.used, buf \o sc.app))
                        /\ pc' = "done"
                   ELSE UNCHANGED <<ret, pc>>
        /\ UNCHANGED <<codec, input, intr, fail, overrun, op, pred, delim, pos0, buf0, prev, sum, num, spin>>

\* fill_buf() answers an error other than Interrupted: return Err(e)
fill_until_err ==
    /\ fail > 0
    /\ fail' = fail - 1
    /\ ret' = Err
    /\ pc' = "done"
    /\ UNCHANGED <<codec, input, pos, filled, intr, overrun, op, pred, delim, read, buf,
                   pos0, buf0, prev, sum, num, spin>>

fill_until ==
    /\ op = "fill_until"
    /\ pc = "loop"
    /\ \/ \E f \in fill_buf : fill_until_ok(f)
       \/ fill_until_err

\* ---------------------------------------------------------------- skip_while
call_skip_while ==
    \E P \in Predicates : Call("skip_while", P, 0, FALSE)

\* skip_while consuming the byte it examined whether it matches or not
skip_while_step_always(b, P) == [adv |-> 1, stop |-> b \notin P]

\* the body of the loop on the first byte b of the window: how many bytes it
\* consumes and whether it breaks
skip_while_step(b, P) == [adv |-> IF b \in P THEN 1 ELSE 0, stop |-> b \notin P]

\* one iteration of the loop, fill_buf() answering Ok with the buffer ending at f
skip_while_ok(f) ==
    LET av == available(f)
    IN  /\ filled' = f
        /\ IF Len(av) = 0
           THEN \* break
                /\ ret' = Ok(read)
                /\ pc' = "done"
                /\ UNCHANGED <<pos, read>>
           ELSE LET st == skip_while_step(av[1], pred)
                IN  /\ pos' = consume(pos, f, st.adv)
                    /\ read' = read + st.adv
                    /\ IF st.stop
                       THEN /\ ret' = Ok(read + st.adv)
                            /\ pc' = "done"
                       ELSE UNCHANGED <<ret, pc>>
        /\ UNCHANGED <<codec, input, intr, fail, overrun, op, pred, delim, buf, pos0, buf0,
                       prev, sum, num, spin>>

\* fill_buf() answers an error other than Interrupted: return Err(e)
skip_while_err ==
    /\ fail > 0
    /\ fail' = fail - 1
    /\ ret' = Err
    /\ pc' = "done"
    /\ UNCHANGED <<codec, input, pos, filled, intr, overrun, op, pred, delim, read, buf,
                   pos0, buf0, prev, sum, num, spin>>

skip_while ==
    /\ op = "skip_while"
    /\ pc = "loop"
    /\ \/ \E f \in fill_buf : skip_while_ok(f)
       \/ skip_while_err

\* ---------------------------------------------------------------- skip_until
call_skip_until ==
    \E d \in Byte : Call("skip_until", {}, d, FALSE)

\* skip_until breaking at the delimiter without consuming it
skip_until_step_before(b, d) == [adv |-> IF b = d THEN 0 ELSE 1, stop |-> b = d]

\* the body of the loop on the first byte b of the window: both arms consume
\* one byte, the delimiter arm breaks
skip_until_step(b, d) == [adv |-> 1, stop |-> b = d]

\* one iteration of the loop, fill_buf() answering Ok with the buffer ending at f
skip_until_ok(f) ==
    LET av == available(f)
    IN  /\ filled' = f
        /\ IF Len(av) = 0
           THEN \* break
                /\ ret' = Ok(read)
                /\ sum' = sum + read
                /\ pc' = "done"
                /\ UNCHANGED <<pos, read>>
           ELSE LET st == skip_until_step(av[1], delim)
                IN  /\ pos' = consume(pos, f, st.adv)
                    /\ read' = read + st.adv
                    /\ IF st.stop
                       THEN /\ ret' = Ok(read + st.adv)
                            /\ sum' = sum + read + st.adv
                            /\ pc' = "done"
                       ELSE UNCHANGED <<ret, pc, sum>>
        /\ UNCHANGED <<codec, input, intr, fail, overrun, op, pred, delim, buf, pos0, buf0,
                       prev, num, spin>>

\* fill_buf() answers an error other than Interrupted: return Err(e)
skip_until_err ==
    /\ fail > 0
    /\ fail' = fail - 1
    /\ ret' = Err
    /\ pc' = "done"
    /\ UNCHANGED <<codec, input, pos, filled, intr, overrun, op, pred, delim, read, buf,
                   pos0, buf0, prev, sum, num, spin>>

skip_until ==
    /\ op = "skip_until"
    /\ pc = "loop"
    /\ \/ \E f \in fill_buf : skip_until_ok(f)
       \/ skip_until_err

\* ---------------------------------------------------------------- fill_exact
\* the caller passes a zeroed slice of length n, as `vec![0; 5]` in the
\* documentation's example
call_fill_exact ==
    \E n \in 0..MaxLen : CallNum("fill_exact", n, [i \in 1..n |-> 0])

\* fill_exact copying the last n bytes of the window
fill_exact_copy_tail(av, n) == SubSeq(av, Len(av) - n + 1, Len(av))

\* buf.copy_from_slice(&available[..buf.len()])
fill_exact_copy(av, n) == SubSeq(av, 1, n)

\* one iteration of the loop, fill_buf() answering Ok with the buffer ending
\* at f; with too few bytes in the window the loop goes round again
fill_exact_ok(f) ==
    LET av == available(f)
    IN  /\ filled' = f
        /\ IF Len(av) >= num
           THEN /\ buf' = fill_exact_copy(av, num)
                /\ ret' = Ok(0)
                /\ pc' = "done"
                /\ UNCHANGED spin
           ELSE /\ spin' = 1 - spin
                /\ UNCHANGED <<buf, ret, pc>>
        /\ UNCHANGED <<codec, input, pos, intr, fail, overrun, op, pred, delim, read, pos0,
                       buf0, prev, sum, num>>

\* fill_buf() answers an error other than Interrupted: return Err(e)
fill_exact_err ==
    /\ fail > 0
    /\ fail' = fail - 1
    /\ ret' = Err
    /\ pc' = "done"
    /\ UNCHANGED <<codec, input, pos, filled, intr, overrun, op, pred, delim, read, buf,
                   pos0, buf0, prev, sum, num, spin>>

fill_exact ==
    /\ op = "fill_exact"
    /\ pc = "loop"
    /\ \/ \E f \in fill_buf : fill_exact_ok(f)
       \/ fill_exact_err

\* after fill_exact returned Ok the caller calls consume(k) for some k up to
\* the length of the slice (`cursor.consume(5)` in the example)
caller_consume_exact ==
    /\ ReturnedOk("fill_exact")
    /\ \E k \in 1..num :
          /\ pos' = consume(pos, filled, k)
          /\ overrun' = (overrun \/ Overrun(pos, filled, k))
          /\ prev' = [op |-> "fill_exact+consume", pred |-> {}, delim |-> 0,
                      kind |-> "ok", val |-> k, app |-> buf]
    /\ op' = "fill_exact+consume"
    /\ UNCHANGED <<codec, input, filled, intr, fail, pc, pred, delim, read, buf, ret, pos0, buf0,
                   sum, num, spin>>

\* ---------------------------------------------------------------- skip
call_skip ==
    \E n \in 0..MaxLen : CallNum("skip", n, <<>>)

\* `self.consume(read)` after the loop, and Ok(())
skip_exit(f) ==
    /\ pos' = consume(pos, f, read)
    /\ overrun' = (overrun \/ Overrun(pos, f, read))
    /\ ret' \in after_consume(pos, f, read, Ok(0))
    /\ pc' = "done"
    /\ UNCHANGED read

\* `while read < n` is false: the loop is left
skip_done ==
    /\ pc = "loop"
    /\ read >= num
    /\ skip_exit(filled)
    /\ UNCHANGED <<codec, input, filled, intr, fail, op, pred, delim, buf, pos0, buf0, prev,
                   sum, num, spin>>

\* first half of an iteration, fill_buf() answering Ok with the buffer ending
\* at f: break on an empty window, else consume(1); read += 1
skip_fill_ok(f) ==
    /\ pc = "loop"
    /\ read < num
    /\ filled' = f
    /\ IF Len(available(f)) = 0
       THEN skip_exit(f)
       ELSE /\ pos' = consume(pos, f, 1)
            /\ read' = read + 1
            /\ pc' = "read"
            /\ UNCHANGED <<overrun, ret>>
    /\ UNCHANGED <<codec, input, intr, fail, op, pred, delim, buf, pos0, buf0, prev, sum, num, spin>>

\* second half, self.read(slice::from_mut(&mut byte)) answering Ok: break on
\* Ok(0), else the byte is consumed by the read; read += 1; continue
skip_read_ok(f) ==
    /\ pc = "read"
    /\ filled' = f
    /\ IF Len(available(f)) = 0
       THEN skip_exit(f)
       ELSE /\ pos' = consume(pos, f, 1)
            /\ read' = read + 1
            /\ pc' = "loop"
            /\ UNCHANGED <<overrun, ret>>
    /\ UNCHANGED <<codec, input, intr, fail, op, pred, delim, buf, pos0, buf0, prev, sum, num, spin>>

\* fill_buf() or read() answers an error other than Interrupted: return Err(e)
skip_err ==
    /\ (pc = "loop" /\ read < num) \/ pc = "read"
    /\ fail > 0
    /\ fail' = fail - 1
    /\ ret' = Err
    /\ pc' = "done"
    /\ UNCHANGED <<codec, input, pos, filled, intr, overrun, op, pred, delim, read, buf,
                   pos0, buf0, prev, sum, num, spin>>

\* fill_buf() or read() answers Interrupted: `continue`, back to the while test
skip_interrupted ==
    /\ op = "skip"
    /\ (pc = "loop" /\ read < num) \/ pc = "read"
    /\ intr > 0
    /\ intr' = intr - 1
    /\ pc' = "loop"
    /\ UNCHANGED <<codec, input, pos, filled, fail, overrun, op, pred, delim, read, buf, ret,
                   pos0, buf0, prev, sum, num, spin>>

skip ==
    /\ op = "skip"
    /\ \/ skip_done
       \/ \E f \in fill_buf : skip_fill_ok(f)
       \/ \E f \in fill_buf : skip_read_ok(f)
       \/ skip_err

\* ---------------------------------------------------------------- the caller
\* after a fill_ operation returned Ok(n) the caller calls consume(n), as
\* the documentation of fill_while and fill_until tells it to
caller_consume ==
    /\ pc = "done"
    /\ op \in {"fill_while", "fill_until"}
    /\ ret.kind = "ok"
    /\ pos' = consume(pos, filled, ret.val)
    /\ overrun' = (overrun \/ Overrun(pos, filled, ret.val))
    /\ sum' = IF op = "fill_until" THEN sum + ret.val ELSE sum
    /\ prev' = NoPrev
    /\ op' = IF op = "fill_while" THEN "fill_while+consume" ELSE "fill_until+consume"
    /\ UNCHANGED <<codec, input, filled, intr, fail, pc, pred, delim, read, buf, ret, pos0, buf0,
                   num, spin>>

\* ---------------------------------------------------------------- the walk
\* The loop of the documentation's example: n = fill_until(d, &mut buf);
\* consume(n); buf.clear(); again, with the same delimiter.  A call that
\* returned an error is tried again.
walk_call ==
    /\ \/ pc = "idle"
       \/ op = "fill_until+consume"
       \/ Returned("fill_until") /\ ret.kind = "err"
    /\ \E d \in Byte :
          /\ op # "none" => d = delim
          /\ Call("fill_until", {}, d, FALSE)

walk_consume ==
    /\ op = "fill_until"
    /\ caller_consume

WalkNext ==
    \/ walk_call
    \/ fill_until
    \/ Interrupted("fill_until")
    \/ walk_consume

\* the caller and the source keep running
WalkSpec == Init /\ [][WalkNext]_vars /\ WF_vars(WalkNext)

\* ---------------------------------------------------------------- the skip walk
\* skip_until(d) called again and again with the same delimiter, on a source
\* that gives no error other than Interrupted
skip_walk_call ==
    /\ pc = "idle" \/ Returned("skip_until")
    /\ \E d \in Byte :
          /\ op # "none" => d = delim
          /\ Call("skip_until", {}, d, FALSE)

skip_walk_step ==
    /\ op = "skip_until"
    /\ pc = "loop"
    /\ \E f \in fill_buf : skip_until_ok(f)

SkipWalkNext ==
    \/ skip_walk_call
    \/ skip_walk_step
    \/ Interrupted("skip_until")

\* the caller and the source keep running
SkipWalkSpec == Init /\ [][SkipWalkNext]_vars /\ WF_vars(SkipWalkNext)

\* ---------------------------------------------------------------- lookahead
\* fill_exact calls and consume(k) only, the loop of fill_exact running on
ExactNext ==
    \/ call_fill_exact
    \/ fill_exact
    \/ Interrupted("fill_exact")
    \/ caller_consume_exact

ExactSpec == Init /\ [][ExactNext]_vars /\ WF_vars(ExactNext)

\* ---------------------------------------------------------------- integer codec
\* 256^n: the number of values n bytes can hold
RECURSIVE Pow256(_)
Pow256(n) == IF n = 0 THEN 1 ELSE 256 * Pow256(n - 1)

\* <$SelfT>::MIN and <$SelfT>::MAX
MinOf(t) == IF t.signed THEN -(Pow256(t.w) \div 2) ELSE 0
MaxOf(t) == IF t.signed THEN (Pow256(t.w) \div 2) - 1 ELSE Pow256(t.w) - 1

\* the values of type t the model encodes: those within Edge of the minimum,
\* of zero and of the maximum, -1, 12 (the value of the doc examples) and
\* the values around the first byte boundary
Values(t) ==
    {v \in (MinOf(t)..(MinOf(t) + Edge)) \cup ((0 - Edge)..Edge) \cup {-1, 12}
           \cup ((256 - Edge)..256) \cup ((MaxOf(t) - Edge)..MaxOf(t)) :
        MinOf(t) <= v /\ v <= MaxOf(t)}

\* the bit pattern of v as an unsigned number (two's complement)
bits(v, t) == IF v < 0 THEN v + Pow256(t.w) ELSE v

\* $SelfT::to_be_bytes, to_le_bytes, to_ne_bytes
to_be_bytes(v, t) == [i \in 1..t.w |-> (bits(v, t) \div Pow256(t.w - i)) % 256]
to_le_bytes(v, t) == [i \in 1..t.w |-> (bits(v, t) \div Pow256(i - 1)) % 256]
to_ne_bytes(v, t) == IF target = "be" THEN to_be_bytes(v, t) ELSE to_le_bytes(v, t)

\* the unsigned number whose bytes, most (be) or least (le) significant
\* first, are b
RECURSIVE be_bits(_)
be_bits(b) ==
    IF b = <<>> THEN 0 ELSE 256 * be_bits(SubSeq(b, 1, Len(b) - 1)) + b[Len(b)]
RECURSIVE le_bits(_)
le_bits(b) ==
    IF b = <<>> THEN 0 ELSE b[1] + 256 * le_bits(Tail(b))

\* the value of type t with the bit pattern u
of_bits(u, t) == IF t.signed /\ u > MaxOf(t) THEN u - Pow256(t.w) ELSE u

\* $SelfT::from_be_bytes reading the second byte as the most significant one
from_be_bytes_swapped(b, t) == of_bits(le_bits(b), t)

\* $SelfT::from_be_bytes, from_le_bytes, from_ne_bytes
from_be_bytes(b, t) == of_bits(be_bits(b), t)
from_le_bytes(b, t) == of_bits(le_bits(b), t)
from_ne_bytes(b, t) == IF target = "be" THEN from_be_bytes(b, t) ELSE from_le_bytes(b, t)

\* the conversions by the byte order o of the call
to_bytes(o, v, t) ==
    CASE o = "be" -> to_be_bytes(v, t)
      [] o = "le" -> to_le_bytes(v, t)
      [] o = "ne" -> to_ne_bytes(v, t)
from_bytes(o, b, t) ==
    CASE o = "be" -> from_be_bytes(b, t)
      [] o = "le" -> from_le_bytes(b, t)
      [] o = "ne" -> from_ne_bytes(b, t)

\* the names of the codec operations of byte order o, and the byte order of
\* the operation named n
WriteOp(o) == CASE o = "be" -> "write_be" [] o = "le" -> "write_le" [] o = "ne" -> "write_ne"
ReadOp(o) == CASE o = "be" -> "read_be" [] o = "le" -> "read_le" [] o = "ne" -> "read_ne"
FillOp(o) == CASE o = "be" -> "fill_be" [] o = "le" -> "fill_le" [] o = "ne" -> "fill_ne"
WriteOps == {WriteOp(o) : o \in Orders}
ReadOps == {ReadOp(o) : o \in Orders}
FillOps == {FillOp(o) : o \in Orders}
OrderOf(n) == CHOOSE o \in Orders : n \in {WriteOp(o), ReadOp(o), FillOp(o)}


\* the result of a fill_be/le/ne call that just returned Ok, kept for the
\* next decode of the same byte order o
CodecSummary(o) ==
    IF pc = "done" /\ op = FillOp(o) /\ ret.kind = "ok"
    THEN [op |-> op, pred |-> {}, delim |-> 0, kind |-> ret.kind,
          val |-> ret.val, app |-> buf]
    ELSE NoPrev

\* the caller starts the codec operation named n with the byte array b; v is
\* the number it passes on (the integer to write, buf.len() for fill_exact)
\* and in the call of the codec that the operation runs for (fill_exact
\* runs for fill_be/le/ne)
CallBytes(n, in, v, b, p) ==
    /\ pc \in {"idle", "done"}
    /\ outer = "none"
    /\ op' = n
    /\ outer' = in
    /\ pc' = "loop"
    /\ num' = v
    /\ buf' = b
    /\ buf0' = b
    /\ read' = 0
    /\ ret' = NoRet
    /\ pos0' = pos
    /\ prev' = p
    /\ pred' = {}
    /\ delim' = 0
    /\ spin' = 0
    /\ overrun' = FALSE
    /\ UNCHANGED <<src, sum, ty, target, enc>>

\* ---------------------------------------------------------------- write_be/le/ne
\* write_be_bytes, write_le_bytes, write_ne_bytes: `let b = &self.to_be_bytes()`;
\* the writer is the stream while it is still empty
call_write_bytes ==
    \E o \in Orders, v \in Values(ty) :
        /\ input = <<>>
        /\ CallBytes(WriteOp(o), "none", v, to_bytes(o, v, ty), NoPrev)

\* write_all returning the number of bytes of its last write
write_bytes_len_last(b, n) == n

\* `let len = b.len()` ... `Ok(len)`
write_bytes_len(b, n) == Len(b)

\* one iteration of write_all(b): the writer takes the next n bytes (a
\* partial write unless n is all that is left); after the last byte
\* write_be_bytes returns Ok(len)
write_all_ok(n) ==
    /\ input' = input \o SubSeq(buf, read + 1, read + n)
    /\ read' = read + n
    /\ IF read + n = Len(buf)
       THEN /\ ret' = Ok(write_bytes_len(buf, n))
            /\ pc' = "done"
            /\ enc' = [order |-> OrderOf(op), value |-> num]
       ELSE UNCHANGED <<ret, pc, enc>>
    /\ UNCHANGED <<pos, filled, intr, fail, overrun, op, pred, delim, buf, pos0, buf0,
                   prev, sum, num, spin, ty, target, outer>>

\* the writer answers an error other than Interrupted (or Ok(0)): the `?`
\* returns it, with the bytes written so far left in the stream
write_all_err ==
    /\ fail > 0
    /\ fail' = fail - 1
    /\ ret' = Err
    /\ pc' = "done"
    /\ enc' = NoEnc
    /\ UNCHANGED <<input, pos, filled, intr, overrun, op, pred, delim, read, buf, pos0,
                   buf0, prev, sum, num, spin, ty, target, outer>>

write_bytes ==
    /\ op \in WriteOps
    /\ pc = "loop"
    /\ \/ \E n \in 1..(Len(buf) - read) : write_all_ok(n)
       \/ write_all_err

\* ---------------------------------------------------------------- read_be/le/ne
\* read_be_bytes, read_le_bytes, read_ne_bytes: `let mut buf = [0; size_of]`
call_read_bytes ==
    \E o \in Orders :
        CallBytes(ReadOp(o), "none", 0, [i \in 1..ty.w |-> 0], CodecSummary(o))

\* one iteration of read_exact(&mut buf), read() answering Ok with the
\* source's buffer ending at f: Ok(0) ends the loop with buf not full, which
\* is Err(UnexpectedEof); else the bytes read go to buf and are consumed, and
\* with buf full read_be_bytes returns Ok(from_be_bytes(buf))
read_exact_ok(f) ==
    LET av == available(f)
        n == Min(Len(av), Len(buf) - read)
        b == [i \in 1..Len(buf) |-> IF read < i /\ i <= read + n THEN av[i - read] ELSE buf[i]]
    IN  /\ filled' = f
        /\ IF n = 0
           THEN /\ ret' = Eof
                /\ pc' = "done"
                /\ UNCHANGED <<pos, read, buf>>
           ELSE /\ pos' = consume(pos, f, n)
                /\ read' = read + n
                /\ buf' = b
                /\ IF read + n = Len(buf)
                   THEN /\ ret' = Ok(from_bytes(OrderOf(op), b, ty))
                        /\ pc' = "done"
                   ELSE UNCHANGED <<ret, pc>>
        /\ UNCHANGED <<codec, input, intr, fail, overrun, op, pred, delim, pos0, buf0,
                       prev, sum, num, spin>>

\* read() answers an error other than Interrupted: the `?` returns it
read_exact_err ==
    /\ fail > 0
    /\ fail' = fail - 1
    /\ ret' = Err
    /\ pc' = "done"
    /\ UNCHANGED <<codec, input, pos, filled, intr, overrun, op, pred, delim, read, buf,
                   pos0, buf0, prev, sum, num, spin>>

read_bytes ==
    /\ op \in ReadOps
    /\ pc = "loop"
    /\ \/ \E f \in fill_buf : read_exact_ok(f)
       \/ read_exact_err

\* ---------------------------------------------------------------- fill_be/le/ne
\* fill_be_bytes, fill_le_bytes, fill_ne_bytes: `let mut buf = [0; size_of]`
\* and the call reader.fill_exact(&mut buf)
call_fill_bytes ==
    \E o \in Orders :
        CallBytes("fill_exact", FillOp(o), ty.w, [i \in 1..ty.w |-> 0], CodecSummary(o))

\* fill_be_bytes, fill_le_bytes and fill_ne_bytes all decoding little-endian
fill_bytes_return_le ==
    /\ outer \in FillOps
    /\ Returned("fill_exact")
    /\ op' = outer
    /\ outer' = "none"
    /\ ret' = IF ret.kind = "ok" THEN Ok(from_le_bytes(buf, ty)) ELSE ret
    /\ UNCHANGED <<input, pos, filled, intr, fail, overrun, pc, pred, delim, read, buf,
                   pos0, buf0, prev, sum, num, spin, ty, target, enc>>

\* fill_exact has returned to fill_be_bytes: the `?` returns its error, else
\* Ok(from_be_bytes(buf))
fill_bytes_return ==
    /\ outer \in FillOps
    /\ Returned("fill_exact")
    /\ op' = outer
    /\ outer' = "none"
    /\ ret' = IF ret.kind = "ok" THEN Ok(from_bytes(OrderOf(outer), buf, ty)) ELSE ret
    /\ UNCHANGED <<input, pos, filled, intr, fail, overrun, pc, pred, delim, read, buf,
                   pos0, buf0, prev, sum, num, spin, ty, target, enc>>

\* ---------------------------------------------------------------- the codec alone
\* a stream that starts empty, an integer type, a target of either byte order
CodecInit ==
    /\ input = <<>>
    /\ pos = 0
    /\ filled = 0
    /\ intr = MaxIntr
    /\ fail = MaxFail
    /\ overrun = FALSE
    /\ op = "none"
    /\ pc = "idle"
    /\ pred = {}
    /\ delim = 0
    /\ read = 0
    /\ buf = <<>>
    /\ ret = NoRet
    /\ pos0 = 0
    /\ buf0 = <<>>
    /\ prev = NoPrev
    /\ sum = 0
    /\ num = 0
    /\ spin = 0
    /\ ty \in Types
    /\ target \in Targets
    /\ enc = NoEnc
    /\ outer = "none"

CodecNext ==
    \/ call_write_bytes
    \/ write_bytes
    \/ call_read_bytes
    \/ read_bytes
    \/ call_fill_bytes
    \/ fill_exact
    \/ fill_bytes_return
    \/ \E n \in WriteOps \cup ReadOps \cup {"fill_exact"} : Interrupted(n)

\* the caller and the source keep running
CodecSpec == CodecInit /\ [][CodecNext]_vars /\ WF_vars(CodecNext)


\* ---------------------------------------------------------------- properties
\* the unread bytes when the running (or last) operation was called
Unread0 == SubSeq(input, pos0 + 1, Len(input))

IsPrefix(s, t) == Len(s) <= Len(t) /\ s = SubSeq(t, 1, Len(s))

\* length of the longest prefix of s whose bytes the predicate P all accepts
MaxPrefixLen(s, P) ==
    CHOOSE k \in 0..Len(s) :
        /\ \A i \in 1..k : s[i] \in P
        /\ k < Len(s) => s[k + 1] \notin P

MaxPrefix(s, P) == SubSeq(s, 1, MaxPrefixLen(s, P))

\* C1: a read_while call that returns Ok(k) has advanced the position by
\* exactly k, k is the number of bytes it appended to buf, and the first
\* non-matching byte of the unread input, if there is one, is still unread.
C1_read_while_advances_by_count ==
    ReturnedOk("read_while") =>
        /\ pos = pos0 + ret.val
        /\ Len(Appended) = ret.val
        /\ pos <= pos0 + MaxPrefixLen(Unread0, pred)

\* read_while returned Ok(k), k >= 1, in front of a non-matching byte, from a
\* source whose window was shorter than the remaining input
C1_witness ==
    /\ ReturnedOk("read_while")
    /\ ret.val >= 1
    /\ pos < Len(input)
    /\ input[pos + 1] \notin pred
    /\ filled < Len(input)

\* C2: read_while terminates when every remaining byte satisfies the
\* predicate: it appends each remaining byte exactly once (so buf never
\* grows by more than the number of remaining bytes), and it returns that
\* number with the source at end-of-input.
C2_read_while_terminates_on_matching_run ==
    (op = "read_while" /\ \A i \in 1..Len(Unread0) : Unread0[i] \in pred) =>
        /\ Len(Appended) <= Len(Unread0)
        /\ ReturnedOk("read_while") =>
              /\ ret.val = Len(Unread0)
              /\ Appended = Unread0
              /\ pos = Len(input)

\* C3: read_while appends exactly the longest prefix of the unread input whose
\* bytes all satisfy the predicate, never more, and returns its length; when
\* the first unread byte does not match it returns 0 and consumes nothing.
C3_read_while_appends_maximal_prefix ==
    op = "read_while" =>
        /\ IsPrefix(Appended, MaxPrefix(Unread0, pred))
        /\ ReturnedOk("read_while") =>
              /\ Appended = MaxPrefix(Unread0, pred)
              /\ ret.val = MaxPrefixLen(Unread0, pred)
              /\ (Unread0 # <<>> /\ Unread0[1] \notin pred) =>
                    (ret.val = 0 /\ pos = pos0)

\* C4: the bytes read_while has appended, followed by the bytes still unread,
\* are the original unread input: no byte is lost and none is duplicated.
\* While the call runs the appended bytes are a prefix of that input.
C4_read_while_reconstructs_input ==
    op = "read_while" =>
        /\ IsPrefix(Appended, Unread0)
        /\ ReturnedOk("read_while") => Appended \o Unread = Unread0

\* what read_while leaves when it returns Ok: the position after, and buf
\* extended by, the longest matching prefix of the unread input
read_while_result ==
    ReturnedOk("read_while") =>
        /\ pos = pos0 + MaxPrefixLen(Unread0, pred)
        /\ Appended = MaxPrefix(Unread0, pred)

\* the prefix of s up to and including the first d, all of s if d is not in s
UpToDelim(s, d) ==
    IF \E i \in 1..Len(s) : s[i] = d
    THEN SubSeq(s, 1, CHOOSE i \in 1..Len(s) : s[i] = d /\ \A j \in 1..(i - 1) : s[j] # d)
    ELSE s

\* this call repeats the fill_ call o right before it, both returned Ok
Repeated(o) ==
    /\ ReturnedOk(o)
    /\ prev.op = o
    /\ prev.kind = "ok"
    /\ prev.pred = pred
    /\ prev.delim = delim

\* C5: fill_while never changes the source position, and a second fill_while
\* with the same predicate and no consume in between returns the same count
\* and appends the same bytes.
C5_fill_while_keeps_position ==
    /\ op = "fill_while" => pos = pos0
    /\ Repeated("fill_while") => (ret.val = prev.val /\ Appended = prev.app)

\* C6: the value fill_while returns is the number of bytes it appended.
C6_fill_while_returns_appended_count ==
    ReturnedOk("fill_while") => ret.val = Len(Appended)

\* C7: fill_while(buf, p) followed by consume(n), n the count it returned,
\* leaves the position and buf that read_while(buf, p) leaves from the same
\* source (read_while_result), wherever read_while returns.
C7_fill_while_consume_is_read_while ==
    (op = "fill_while+consume" /\ \E i \in 1..Len(Unread0) : Unread0[i] \notin pred) =>
        /\ pos = pos0 + MaxPrefixLen(Unread0, pred)
        /\ Appended = MaxPrefix(Unread0, pred)

\* C8: fill_until appends the unread bytes up to and including the first
\* delimiter, or all remaining bytes if there is none, and returns their number.
C8_fill_until_appends_through_delimiter ==
    ReturnedOk("fill_until") =>
        /\ Appended = UpToDelim(Unread0, delim)
        /\ ret.val = Len(UpToDelim(Unread0, delim))

\* C9: fill_until leaves the position unchanged at every step and on every
\* return (Ok or error), and a second fill_until with the same delimiter and
\* no consume in between returns the same count and appends the same bytes.
C9_fill_until_keeps_position ==
    /\ op = "fill_until" => pos = pos0
    /\ Repeated("fill_until") => (ret.val = prev.val /\ Appended = prev.app)

\* fill_until was repeated on a window shorter than the remaining input and
\* returned a non-empty segment again
C9_witness ==
    /\ Repeated("fill_until")
    /\ ret.val >= 1
    /\ Appended = prev.app
    /\ filled < Len(input)

\* the state properties of the walk: a call with unread input left returns
\* n >= 1; the bytes it appends are the n bytes at the position; consume(n)
\* then moves the position by exactly n; the counts consumed add up to the
\* position; a call at end-of-input returns 0 and appends nothing
WalkInv ==
    /\ ReturnedOk("fill_until") =>
          /\ Unread0 # <<>> => ret.val >= 1
          /\ Unread0 = <<>> => ret.val = 0
          /\ Appended = SubSeq(input, pos0 + 1, pos0 + ret.val)
    /\ op = "fill_until+consume" => pos = pos0 + ret.val
    /\ sum = pos
    /\ pos = Len(input) => sum = Len(input)

\* C10: repeating n = fill_until(d, buf); consume(n) walks the source segment
\* by segment (WalkInv holds throughout) and exhausts it after finitely many
\* rounds.
C10_fill_until_walk == []WalkInv /\ <>(pos = Len(input))

\* the walk exhausted an input of at least two bytes in more than one round
C10_witness ==
    /\ op = "fill_until+consume"
    /\ pos = Len(input)
    /\ sum = Len(input)
    /\ Len(input) >= 2
    /\ 1 <= ret.val /\ ret.val < Len(input)

\* C11: called with the source at end-of-input, fill_until appends nothing
\* and returns Ok(0) (an error of the source aside).
C11_fill_until_at_eof ==
    (op = "fill_until" /\ Unread0 = <<>>) =>
        /\ Appended = <<>>
        /\ Returned("fill_until") => ret \in {Ok(0), Err}

\* fill_until returned Ok at the end of a non-empty input, buf not empty
C11_witness ==
    /\ ReturnedOk("fill_until")
    /\ Len(input) >= 1
    /\ pos0 = Len(input)
    /\ buf0 # <<>>

\* the first unread byte at the call is the delimiter
DelimFirst == Unread0 # <<>> /\ Unread0[1] = delim

\* C12: when the first unread byte is the delimiter, fill_until returns 1 and
\* appends only the delimiter, and skip_until returns 1 (it has skipped
\* exactly the delimiter).
C12_delimiter_first ==
    /\ (ReturnedOk("fill_until") /\ DelimFirst) =>
          (ret.val = 1 /\ Appended = <<delim>>)
    /\ (ReturnedOk("skip_until") /\ DelimFirst) =>
          (ret.val = 1 /\ pos = pos0 + 1)

\* fill_until and then skip_until were called in front of the delimiter, with
\* more input behind it: both returned 1
C12_witness ==
    /\ ReturnedOk("skip_until")
    /\ DelimFirst
    /\ ret.val = 1
    /\ prev.op = "fill_until" /\ prev.kind = "ok" /\ prev.delim = delim
    /\ prev.val = 1 /\ prev.app = <<delim>>
    /\ pos < Len(input)

C18_skip_while_skips_maximal_run ==
    op = "skip_while" =>
        /\ pos = pos0 + read
        /\ read <= MaxPrefixLen(Unread0, pred)
        /\ ReturnedOk("skip_while") =>
              /\ ret.val = MaxPrefixLen(Unread0, pred)
              /\ pos = pos0 + ret.val

\* skip_while skipped a run of two bytes and stopped in front of a
\* non-matching byte, the last byte of the input
C18_witness ==
    /\ ReturnedOk("skip_while")
    /\ ret.val = 2
    /\ pos < Len(input)
    /\ input[pos + 1] \notin pred

\* C19: skip_until(d) advances the position past the unread bytes up to and
\* including the first d, or to end-of-input if there is none, and returns
\* their number: the next unread byte is the one after the delimiter.
C19_skip_until_skips_through_delimiter ==
    ReturnedOk("skip_until") =>
        /\ ret.val = Len(UpToDelim(Unread0, delim))
        /\ pos = pos0 + ret.val
        /\ Unread = SubSeq(Unread0, ret.val + 1, Len(Unread0))

\* skip_until skipped a non-delimiter and the delimiter, and a byte is left
\* after the delimiter
C19_witness ==
    /\ ReturnedOk("skip_until")
    /\ ret.val = 2
    /\ input[pos] = delim
    /\ pos < Len(input)

\* the state properties of the skip walk: a call with unread input left
\* returns n >= 1 and has advanced the position by n; the counts returned add
\* up to the position; a call at end-of-input returns 0
SkipWalkInv ==
    /\ ReturnedOk("skip_until") =>
          /\ Unread0 # <<>> => ret.val >= 1
          /\ Unread0 = <<>> => ret.val = 0
          /\ pos = pos0 + ret.val
    /\ pc \in {"idle", "done"} => sum = pos
    /\ (pc = "done" /\ pos = Len(input)) => sum = Len(input)

C14_fill_exact_lookahead ==
    /\ op = "fill_exact" => pos = pos0
    /\ ReturnedOk("fill_exact") =>
          /\ Len(buf) = num
          /\ buf = SubSeq(input, pos0 + 1, pos0 + num)
          /\ (prev.op = "fill_exact" /\ prev.kind = "ok" /\ prev.val = num) =>
                buf = prev.app
          /\ prev.op = "fill_exact+consume" =>
                \A i \in 1..num :
                    prev.val + i <= Len(prev.app) => buf[i] = prev.app[prev.val + i]

\* fill_exact read the byte 1 after an earlier fill_exact that read 0, 1 and
\* consume(1)
C14_witness ==
    /\ ReturnedOk("fill_exact")
    /\ num = 1
    /\ buf = <<1>>
    /\ prev.op = "fill_exact+consume"
    /\ prev.val = 1
    /\ prev.app = <<0, 1>>

\* C15: with fewer unread bytes than buf.len() before end-of-input, fill_exact
\* returns, and not Ok: it reports the end of the stream (or the error the
\* source gave).
C15_fill_exact_reports_eof ==
    (op = "fill_exact" /\ pc = "loop" /\ Len(Unread0) < num)
        ~> (Returned("fill_exact") /\ ret.kind # "ok")

\* C16: with at least buf.len() unread bytes in the source, fill_exact
\* returns (Ok, or the error the source gave), whatever the window fill_buf
\* gives.
C16_fill_exact_returns_when_enough ==
    (op = "fill_exact" /\ pc = "loop" /\ Len(Unread0) >= num)
        ~> Returned("fill_exact")

\* C17: skip(n) advances the position by exactly min(n, number of unread
\* bytes); skip(0) leaves it unchanged.
C17_skip_advances_by_n ==
    ReturnedOk("skip") => pos = pos0 + Min(num, Len(Unread0))

\* every variable but the budget of Interrupted answers
but_intr == <<input, pos, filled, fail, overrun, op, pc, pred, delim, read, buf, ret,
              pos0, buf0, prev, sum, num, spin, codec>>

\* C21: an Interrupted answer of the source is retried transparently: it
\* leaves the call where it was (position, window, counters, buf and the point
\* in the loop), so that the call goes on as on a source that never
\* interrupts, and an error is returned only for another failure of the source.
C21_interruption_is_transparent ==
    [][/\ intr' # intr => UNCHANGED but_intr
       /\ (ret' # ret /\ ret'.kind = "err") => fail' = fail - 1]_vars

\* the operations of C22
Appending == {"read_while", "fill_while", "fill_until"}

\* C22: a failure of the source other than Interrupted makes read_while,
\* fill_while and fill_until return it at once (no retry), with every byte
\* appended so far still in buf; read_while has then advanced the position by
\* exactly the number of bytes it appended.
C22_failure_returns_at_once ==
    [][(op \in Appending /\ fail' # fail) =>
          /\ pc' = "done" /\ ret' = Err
          /\ buf' = buf
          /\ op = "read_while" => pos' = pos0 + Len(Appended)]_vars

\* the operations of C23
EofOk == {"read_while", "fill_while", "fill_until", "skip", "skip_while", "skip_until"}

\* C23: end-of-input is not an error: when one of these operations asks the
\* source at end-of-input and the source answers (Ok with nothing left), the
\* operation returns Ok with the count so far (skip: Ok(())), which is 0 when
\* it was called at end-of-input; it returns an error only when the source
\* failed.
C23_eof_is_not_an_error ==
    [][(op \in EofOk /\ pc \in {"loop", "read"}) =>
          /\ (pos = Len(input) /\ fail' = fail /\ intr' = intr) =>
                /\ pc' = "done"
                /\ ret' = Ok(IF op = "skip" THEN 0 ELSE read)
                /\ (pos0 = Len(input)) => (ret'.val = 0 /\ pos' = pos0 /\ buf' = buf0)
          /\ (ret'.kind = "err") => (fail' = fail - 1)]_vars

\* the caller's own consume after a fill_ call, which is no call of the library
AfterCallerConsume == {"fill_while+consume", "fill_until+consume", "fill_exact+consume"}

\* C24: no operation of the library calls consume(n) with n greater than the
\* number of bytes of the window it has not yet consumed or read.
C24_consume_within_window ==
    op \notin AfterCallerConsume => ~overrun

\* the operations that are documented to consume what they read
AutoConsuming == {"read_while", "skip", "skip_while", "skip_until"}

\* C25: the position never decreases and never exceeds the length of the
\* input, and a step of a library operation changes it only if the operation
\* is an auto-consuming one: the peek-only operations leave it as it was.
C25_position_moves_forward ==
    [][/\ pos <= pos' /\ pos' <= Len(input)
       /\ (pc \in {"loop", "read"} /\ pos' # pos) => op \in AutoConsuming]_vars

\* this decode began at the first byte of the integer that the last write
\* wrote, and has its byte order o
ReadsBack(o) ==
    /\ enc.order = o
    /\ pos0 = Len(input) - ty.w

\* C26: an integer written with write_be, write_le or write_ne and decoded
\* from the written bytes with the consuming decode of the same type and byte
\* order comes back as the value written, whatever the value (0, the minimum
\* and the maximum included).
C26_write_then_read_round_trip ==
    \A o \in Orders :
        (ReturnedOk(ReadOp(o)) /\ ReadsBack(o)) => ret.val = enc.value

\* the minimum of i16 was written little-endian on a big-endian target and
\* read back
C26_witness ==
    /\ ReturnedOk("read_le")
    /\ ReadsBack("le")
    /\ ty = [w |-> 2, signed |-> TRUE]
    /\ target = "be"
    /\ enc.value = MinOf(ty)
    /\ ret.val = -32768

\* C27: fill_be, fill_le and fill_ne leave the position of the source as it
\* was, and the integer one returns is returned again by the same call
\* repeated and by the consuming decode of the same type and byte order made
\* next from that position.
C27_fill_decodes_without_consuming ==
    \A o \in Orders :
        /\ (outer = FillOp(o) \/ op = FillOp(o)) => pos = pos0
        /\ (ReturnedOk(FillOp(o)) /\ prev.op = FillOp(o)) => ret.val = prev.val
        /\ (ReturnedOk(ReadOp(o)) /\ prev.op = FillOp(o)) =>
              (ret.val = prev.val /\ pos = pos0 + ty.w)

\* fill_be and then read_be both returned 256 from the two bytes 1, 0
C27_witness ==
    /\ ReturnedOk("read_be")
    /\ prev.op = "fill_be"
    /\ prev.app = <<1, 0>>
    /\ ret.val = 256
    /\ pos = 2

\* a decode is running; it has returned
Decoding == pc = "loop" /\ (op \in ReadOps \/ outer \in FillOps)
Decoded == pc = "done" /\ (op \in ReadOps \/ op \in FillOps)

\* C28: a decode, consuming or buffered, that is called with fewer unread
\* bytes than the width of its type returns, and what it returns is an error.
C28_short_input_is_an_error ==
    /\ [](Decoded /\ Len(Unread0) < ty.w => ret.kind # "ok")
    /\ (Decoding /\ Len(Unread0) < ty.w) ~> Decoded

\* the number that the bytes b spell, most significant byte first
RECURSIVE Spelled(_)
Spelled(b) ==
    IF b = <<>> THEN 0 ELSE Head(b) * Pow256(Len(b) - 1) + Spelled(Tail(b))

Reversed(b) == [i \in 1..Len(b) |-> b[Len(b) + 1 - i]]

\* b is the integer v of type t in byte order o: t.w bytes that spell the
\* two's complement bit pattern of v, read in that order
IsEncoding(b, o, v, t) ==
    LET big == o = "be" \/ (o = "ne" /\ target = "be")
    IN  /\ Len(b) = t.w
        /\ \A i \in 1..Len(b) : b[i] \in 0..255
        /\ Spelled(IF big THEN b ELSE Reversed(b)) = (IF v < 0 THEN v + Pow256(t.w) ELSE v)

\* C29: an encode that returns Ok has written exactly the width bytes of its
\* integer to the sink, in the byte order of the call, however the sink split
\* the writes, and returns the width.
C29_write_writes_all_bytes ==
    \A o \in Orders :
        ReturnedOk(WriteOp(o)) =>
            /\ ret.val = ty.w
            /\ IsEncoding(input, o, num, ty)

\* write_le wrote the i16 12 as the two bytes 12, 0 and returned 2
C29_witness ==
    /\ ReturnedOk("write_le")
    /\ ty = [w |-> 2, signed |-> TRUE]
    /\ num = 12
    /\ input = <<12, 0>>
    /\ ret.val = 2

\* C30: no operation of the library panics: no slice index or copy goes out
\* of bounds and no call it makes on the source does.
C30_no_panic ==
    ret.kind # "panic"

\* C31: within one fill_until call, at the start of every loop iteration (and
\* when the call returns) the bytes appended so far are the first `read`
\* bytes of the input that was unread at the call: every iteration scans the
\* window from offset `read` on, so no byte is appended twice and none is
\* skipped.
C31_fill_until_scans_from_read ==
    op = "fill_until" =>
        /\ read <= Len(Unread0)
        /\ Len(Appended) = read
        /\ Appended = SubSeq(Unread0, 1, read)

\* fill_until is at the start of its second iteration: it has scanned a
\* window of two bytes without the delimiter, shorter than the remaining
\* input
C31_witness ==
    /\ op = "fill_until"
    /\ pc = "loop"
    /\ read = 2
    /\ Appended = SubSeq(input, pos0 + 1, pos0 + 2)
    /\ filled = pos0 + 2
    /\ filled < Len(input)


\* C32: fill_while appends to buf exactly the longest prefix of the unread
\* input whose bytes all satisfy the predicate (while it runs, a part of that
\* prefix): the first non-matching byte is examined but not appended, and
\* when every remaining byte matches all of them are appended.
C32_fill_while_appends_maximal_prefix ==
    op = "fill_while" =>
        /\ IsPrefix(Appended, MaxPrefix(Unread0, pred))
        /\ ReturnedOk("fill_while") =>
              /\ Appended = MaxPrefix(Unread0, pred)
              /\ (\A i \in 1..Len(Unread0) : Unread0[i] \in pred) => Appended = Unread0

\* fill_while appended two matching bytes behind what buf held and stopped at
\* the third byte, which does not match
C32_witness ==
    /\ ReturnedOk("fill_while")
    /\ buf0 # <<>>
    /\ Len(Appended) = 2
    /\ Len(Unread0) = 3
    /\ Unread0[3] \notin pred


\* C33: on every source, a window shorter than the remaining input included,
\* skip_while(p) and read_while(buf, p) called in the same state return the
\* same count and leave the same position: skip_while skips the longest run
\* of matching unread bytes and returns its length, and read_while counts
\* towards that same length (never past it), returns it and leaves the
\* position behind that run.
C33_skip_while_is_read_while ==
    LET k == MaxPrefixLen(Unread0, pred)
    IN  /\ ReturnedOk("skip_while") => (ret.val = k /\ pos = pos0 + k)
        /\ op = "read_while" => read <= k
        /\ ReturnedOk("read_while") => (ret.val = k /\ pos = pos0 + k)


\* C34: on every source, a window shorter than the remaining input included,
\* skip_until(d) returns the count n that fill_until(d, buf) returns when
\* called in the same state, and leaves the position that consume(n) after
\* that fill_until leaves: n bytes behind the position of the call.
C34_skip_until_is_fill_until_consume ==
    (ReturnedOk("skip_until") /\ prev.op = "fill_until" /\ prev.delim = delim) =>
        /\ ret.val = prev.val
        /\ pos = pos0 + prev.val


\* C35: read_while, fill_while and fill_until only append to buf: every step
\* of a running call, the one that returns Ok or an error included, leaves
\* what buf held in place and adds at its end nothing but bytes of the source
\* (a slice of the input, possibly empty), so what buf contained before the
\* call is still its prefix afterwards and buf has grown by the appended
\* bytes alone.
C35_buf_is_append_only ==
    [][(op \in Appending /\ pc = "loop") =>
          /\ IsPrefix(buf, buf')
          /\ IsPrefix(buf0, buf')
          /\ \E a \in 1..(Len(input) + 1), b \in 0..Len(input) :
                buf' = buf \o SubSeq(input, a, b)]_vars

\* read_while was called with a byte in buf, appended a byte behind it and
\* returned the error of the source
C35_witness ==
    /\ Returned("read_while")
    /\ ret = Err
    /\ Len(buf0) = 1
    /\ Len(buf) = 2
    /\ IsPrefix(buf0, buf)


Next ==
    \/ call_read_while
    \/ read_while
    \/ call_fill_while
    \/ fill_while
    \/ call_fill_until
    \/ fill_until
    \/ call_skip_while
    \/ skip_while
    \/ call_skip_until
    \/ skip_until
    \/ call_fill_exact
    \/ fill_exact
    \/ call_skip
    \/ skip
    \/ \E o \in Looping : Interrupted(o)
    \/ skip_interrupted
    \/ caller_consume
    \/ caller_consume_exact

Spec == Init /\ [][Next]_vars

====
